---- MODULE Spec2Model ----
(***************************************************************************)
(* Model of the sensor-fusion ML service:                                  *)
(*   - AnomalyDetector        (ml-service/src/anomaly_detector.py)         *)
(*   - SensorWebSocketClient  (ml-service/src/websocket_client.py)         *)
(*   - MLService / main       (ml-service/src/main.py)                     *)
(*                                                                         *)
(* Numbers.  Anomaly scores are floats in the source.  Here a returned     *)
(* score is an integer number of thousandths (ScoreOne = 1.0), and the two *)
(* component scores (_statistical_anomaly_score, _normalize_score) are     *)
(* computed to the nearest hundredth (UnitOne = 1.0), so that the blend    *)
(* 0.7*a + 0.3*b is the exact integer 7*a + 3*b.  The 1e-6 added to the    *)
(* standard deviation is kept where it decides the result (a zero          *)
(* deviation) and is below the resolution elsewhere.                       *)
(*                                                                         *)
(* Third-party code.  sklearn's IsolationForest and StandardScaler are not *)
(* part of the repository: a fit is identified by the training round that  *)
(* made it, the decision value of a query is an input of predict, and a    *)
(* raising fit or a raising scoring step is an input as well.               *)
(* The websockets library is not part of it either: a connect succeeds or  *)
(* raises, and `async for` over a connection yields frames, ends without   *)
(* an exception when the connection is closed cleanly (close code 1000 or  *)
(* 1001) and raises when it is closed with an error.                       *)
(*                                                                         *)
(* Payloads.  The fields of a sensor payload are numbers, mappings of       *)
(* numbers and lists of numbers, or are absent or of another JSON type;    *)
(* the feature vector extracted from a payload is a vector of numbers.     *)
(*                                                                         *)
(* Specifications.  Spec drives one AnomalyDetector through its            *)
(* public methods.  SessionSpec runs the service: the main task of         *)
(* MLService.start() from await to await, the frames it receives, the      *)
(* shutdown task that a signal creates, and the tasks that call            *)
(* send_command and send_heartbeat.  ServiceSpec runs the service over one *)
(* connection that stays up, for a stream long enough to train the         *)
(* detector.  PayloadSpec feeds it sensor payloads of every shape, and     *)
(* SmallSpec drives a detector whose buffer_size is below the training     *)
(* floor.                                                                  *)
(***************************************************************************)
EXTENDS Integers, Sequences, FiniteSets, TLC

\* ------------------------------------------------------------------------
\* Bounds of the model
\* ------------------------------------------------------------------------
\* Calls made on one detector (predict, update_model, reset together).
MaxCalls == 24

\* Calls that are not the routine predict(BaseVec) with a routine outcome.
MaxOdd == 2

\* buffer_size the detector is constructed with (the service uses 50).
BufferSize == 21

\* Frames received by one session.
MaxFrames == 2

\* Failures of the transport in one session: refused or failed connects and
\* closures of the channel by the peer.
MaxFaults == 2

\* Shutdown signals delivered to the process.
MaxSignals == 1

\* Calls of send_command and send_heartbeat made by other tasks in one session.
MaxCallerSends == 1

\* Frames received by the service over one healthy connection, and those of
\* them that are not the routine sensor sample.
MaxSamples == 22

MaxOddSamples == 1

\* model_update_interval the service is configured with (the default is 100).
ModelUpdateInterval == 2

\* Sensor payloads of every shape received by one session.
MaxPayloads == 2

\* ------------------------------------------------------------------------
\* Program constants
\* ------------------------------------------------------------------------
\* len(self.data_buffer) < 20: the floor for training and for the model path.
MinTrainSamples == 20

\* len(self.data_buffer) < 5: the floor of the statistical scorer.
MinStatSamples == 5

\* deque(maxlen=100) of recent scores.
HistoryLen == 100

\* threshold = 0.7, in thousandths.
Threshold == 700

\* 1.0 of a returned score, in thousandths.
ScoreOne == 1000

\* 1.0 of a component score, in hundredths.
UnitOne == 100

\* self.feature_count = None
None == 0

\* self.websocket = None
NoSocket == 0

\* ------------------------------------------------------------------------
\* Inputs
\* ------------------------------------------------------------------------
\* The routine sample, and the feature vectors offered to predict: the empty
\* vector, vectors of the routine dimension, and vectors of other dimensions.
BaseVec == <<0, 0>>

Vectors == { <<>>, <<0, 0>>, <<0, 1>>, <<2, 0>>, <<1>> }

\* Outcome of one update_model round: every step succeeds, or StandardScaler.fit
\* raises, or IsolationForest.fit raises, or a step after is_trained = True raises.
FitOutcomes == { "ok", "scaler_raises", "forest_raises", "report_raises" }

\* Outcome of the model path of predict: the decision_function value in tenths
\* (typically -0.5 .. 0.5), or scaling or scoring raises.
DecisionTenths == { -5, 0, 5 }

ScoreOutcomes ==
    { [raises |-> FALSE, decision |-> k] : k \in DecisionTenths }
        \cup { [raises |-> TRUE, decision |-> 0] }

RoutineOutcome == [raises |-> FALSE, decision |-> 0]

\* ------------------------------------------------------------------------
\* Arithmetic helpers
\* ------------------------------------------------------------------------
Abs(x) == IF x < 0 THEN -x ELSE x

Min(a, b) == IF a < b THEN a ELSE b

Max(a, b) == IF a > b THEN a ELSE b

RECURSIVE ISqrtIn(_, _, _)
\* floor(sqrt(n)) by bisection, given lo*lo <= n < hi*hi
ISqrtIn(n, lo, hi) ==
    IF hi - lo <= 1 THEN lo
    ELSE IF ((lo + hi) \div 2) * ((lo + hi) \div 2) <= n
         THEN ISqrtIn(n, (lo + hi) \div 2, hi)
         ELSE ISqrtIn(n, lo, (lo + hi) \div 2)

\* floor(sqrt(n)) for 0 <= n < 46340^2
ISqrt(n) == ISqrtIn(n, 0, 46340)

RECURSIVE SumCol(_, _, _)
\* np.sum of column j over the first i rows of a matrix (a sequence of rows)
SumCol(rows, j, i) ==
    IF i = 0 THEN 0 ELSE rows[i][j] + SumCol(rows, j, i - 1)

RECURSIVE SumSqCol(_, _, _)
\* np.sum of the squares of column j over the first i rows
SumSqCol(rows, j, i) ==
    IF i = 0 THEN 0 ELSE rows[i][j] * rows[i][j] + SumSqCol(rows, j, i - 1)

RECURSIVE ExpMilli(_)
\* exp(k) for an integer k >= 0, in thousandths
ExpMilli(k) == IF k = 0 THEN 1000 ELSE (ExpMilli(k - 1) * 2718) \div 1000

\* ------------------------------------------------------------------------
\* AnomalyDetector
\* ------------------------------------------------------------------------
\* The detector after __init__(buffer_size, threshold).  scaler, model and
\* feature_stats hold the training round that fitted them (0: never fitted).
\* rounds counts the update_model rounds that reached the fits.
NewDetector(size) ==
    [ buffer_size      |-> size,
      data_buffer      |-> <<>>,
      is_trained       |-> FALSE,
      feature_count    |-> None,
      prediction_count |-> 0,
      anomaly_count    |-> 0,
      anomaly_history  |-> <<>>,
      scaler           |-> 0,
      model            |-> 0,
      feature_stats    |-> 0,
      rounds           |-> 0 ]

\* Mutant of DequeAppend: nothing is evicted
DequeAppendUnbounded(q, x, cap) == Append(q, x)

\* deque(maxlen=cap).append(x)
DequeAppend(q, x, cap) ==
    IF cap = 0 THEN <<>>
    ELSE IF Len(q) >= cap THEN Append(Tail(q), x)
    ELSE Append(q, x)

\* z / 3 in hundredths, rounded to the nearest, for the z-score
\* z = (A / n) / (sqrt(D) / n + 1e-6) of a feature with |x - mean| = A / n and
\* std = sqrt(D) / n.  A zero deviation leaves the 1e-6 alone in the divisor.
ThirdOfZ(A, D, n) ==
    IF A = 0 THEN 0
    ELSE IF D = 0 THEN ((UnitOne * 1000000) \div (3 * n)) * A
    ELSE (ISqrt((4 * UnitOne * UnitOne * A * A) \div (9 * D)) + 1) \div 2

\* np.abs((features[0] - means) / stds)[j] / 3.0 over n historical rows.
\* With sum S and sum of squares SS of column j: mean = S / n and
\* std = sqrt(n*SS - S^2) / n.
FeatureScore(hist, x, j, n) ==
    CHOOSE z \in { ThirdOfZ(Abs(n * x[j] - S), n * SS - S * S, n) :
                      S \in {SumCol(hist, j, n)}, SS \in {SumSqCol(hist, j, n)} } : TRUE

RECURSIVE MaxFeatureScore(_, _, _)
\* np.max over the features 1..j
MaxFeatureScore(hist, x, j) ==
    IF j = 0 THEN 0
    ELSE Max(FeatureScore(hist, x, j, Len(hist)), MaxFeatureScore(hist, x, j - 1))

\* Mutant of ExcludeCurrent: the current sample stays in the history
ExcludeCurrentKeepsAll(buf) == buf

\* list(self.data_buffer)[:-1]
ExcludeCurrent(buf) == SubSeq(buf, 1, Len(buf) - 1)

\* Mutant of StatisticalAnomalyScore: the cap min(., 1.0) of line 243 is lost
StatisticalAnomalyScoreUncapped(buf, features) ==
    IF Len(buf) < MinStatSamples THEN 0
    ELSE MaxFeatureScore(SubSeq(buf, 1, Len(buf) - 1), features, Len(features))

\* Rows of differing lengths: numpy raises on them (the except branch)
Ragged(rows, features) == \E i \in 1..Len(rows) : Len(rows[i]) # Len(features)

\* _statistical_anomaly_score(features), in hundredths
StatisticalAnomalyScore(buf, features) ==
    IF Len(buf) < MinStatSamples THEN 0
    ELSE LET historical_data == ExcludeCurrent(buf)
         IN  IF Len(historical_data) = 0 THEN 0
             ELSE IF Ragged(historical_data, features) THEN 0
             ELSE Min(MaxFeatureScore(historical_data, features, Len(features)), UnitOne)

\* _normalize_score(decision_score) for decision_score = k/10, in hundredths:
\* clip(1 / (1 + exp(10 * decision_score)), 0, 1)
NormalizeScore(k) ==
    LET e          == ExpMilli(Abs(k))
        num        == IF k >= 0 THEN 1000 ELSE e
        normalized == (2 * UnitOne * num + (1000 + e)) \div (2 * (1000 + e))
    IN  Max(0, Min(normalized, UnitOne))

\* Mutant of UpdateModel: a failed round leaves is_trained as it was
UpdateModelKeepsFlag(e, fit) ==
    IF Len(e.data_buffer) < MinTrainSamples THEN e
    ELSE LET r == e.rounds + 1
         IN  CASE fit = "ok" ->
                    [e EXCEPT !.rounds = r, !.scaler = r, !.feature_stats = r,
                              !.model = r, !.is_trained = TRUE]
               [] fit = "scaler_raises" ->
                    [e EXCEPT !.rounds = r, !.scaler = 0]
               [] fit = "forest_raises" ->
                    [e EXCEPT !.rounds = r, !.scaler = r, !.feature_stats = r]
               [] fit = "report_raises" ->
                    [e EXCEPT !.rounds = r, !.scaler = r, !.feature_stats = r,
                              !.model = r]

\* Mutant of UpdateModel: the floor of 20 samples is not checked
UpdateModelNoFloor(e, fit) ==
    LET r == e.rounds + 1
    IN  IF fit = "ok"
        THEN [e EXCEPT !.rounds = r, !.scaler = r, !.feature_stats = r,
                       !.model = r, !.is_trained = TRUE]
        ELSE [e EXCEPT !.rounds = r, !.is_trained = FALSE]

\* update_model(), with the outcome of its fits
UpdateModel(e, fit) ==
    IF Len(e.data_buffer) < MinTrainSamples THEN e
    ELSE LET r == e.rounds + 1
         IN  CASE fit = "ok" ->
                    [e EXCEPT !.rounds = r, !.scaler = r, !.feature_stats = r,
                              !.model = r, !.is_trained = TRUE]
               [] fit = "scaler_raises" ->
                    [e EXCEPT !.rounds = r, !.scaler = 0, !.is_trained = FALSE]
               [] fit = "forest_raises" ->
                    [e EXCEPT !.rounds = r, !.scaler = r, !.feature_stats = r,
                              !.is_trained = FALSE]
               [] fit = "report_raises" ->
                    [e EXCEPT !.rounds = r, !.scaler = r, !.feature_stats = r,
                              !.model = r, !.is_trained = FALSE]

\* The trained branch of predict (lines 115-145) on detector e
ModelPath(e, features, outcome) ==
    LET stat_score == StatisticalAnomalyScore(e.data_buffer, features)
    IN  IF outcome.raises
        THEN [ det |-> e, ret |-> (ScoreOne \div UnitOne) * stat_score,
               path |-> "fallback", pair |-> <<e.scaler, e.model>> ]
        ELSE LET anomaly_score == NormalizeScore(outcome.decision)
                 final_score   == 7 * anomaly_score + 3 * stat_score
             IN  [ det  |-> [e EXCEPT
                               !.anomaly_history = DequeAppend(@, final_score, HistoryLen),
                               !.anomaly_count =
                                   IF final_score > Threshold THEN @ + 1 ELSE @],
                   ret  |-> final_score,
                   path |-> "model",
                   pair |-> <<e.scaler, e.model>> ]

\* The statistical branches of predict (lines 105-108 and 146-150)
StatPath(e, features, name) ==
    LET anomaly_score == (ScoreOne \div UnitOne) * StatisticalAnomalyScore(e.data_buffer, features)
    IN  [ det  |-> [e EXCEPT !.anomaly_history = DequeAppend(@, anomaly_score, HistoryLen)],
          ret  |-> anomaly_score,
          path |-> name,
          pair |-> <<0, 0>> ]

\* Mutant of NeedsTraining: the buffer need not be full
NeedsTrainingBelowCapacity(e) == ~e.is_trained

\* not self.is_trained and len(self.data_buffer) >= self.buffer_size (line 111)
NeedsTraining(e) == ~e.is_trained /\ Len(e.data_buffer) >= e.buffer_size

\* Mutant of DimensionMismatch: the length is not compared
DimensionMismatchIgnored(e, features) == FALSE

\* len(features) != self.feature_count (line 94)
DimensionMismatch(e, features) == Len(features) # e.feature_count

\* predict(features): the detector after the call, the returned score, the
\* branch taken, and the (scaler, model) rounds a model-path scoring used.
\* fit is the outcome of the auto-train round, outcome that of the model path.
Predict(e, features, fit, outcome) ==
    LET e1 == [e EXCEPT !.prediction_count = @ + 1]
    IN  IF Len(features) = 0
        THEN [ det |-> e1, ret |-> 0, path |-> "empty", pair |-> <<0, 0>> ]
        ELSE
        LET e2 == IF e1.feature_count = None
                  THEN [e1 EXCEPT !.feature_count = Len(features)] ELSE e1
        IN  IF DimensionMismatch(e2, features)
            THEN [ det |-> e2, ret |-> 0, path |-> "mismatch", pair |-> <<0, 0>> ]
            ELSE
            LET e3 == [e2 EXCEPT !.data_buffer = DequeAppend(@, features, e2.buffer_size)]
            IN  IF Len(e3.data_buffer) < MinTrainSamples
                THEN StatPath(e3, features, "cold")
                ELSE
                LET e4 == IF NeedsTraining(e3) THEN UpdateModel(e3, fit) ELSE e3
                IN  IF e4.is_trained
                    THEN ModelPath(e4, features, outcome)
                    ELSE StatPath(e4, features, "stat")

\* len(self.data_buffer) after the append of line 102
LenAfterAppend(e) == Min(Len(e.data_buffer) + 1, e.buffer_size)

\* Whether predict(features) on e gets past the validation (lines 81-99)
Accepts(e, features) ==
    /\ Len(features) # 0
    /\ e.feature_count \in {None, Len(features)}

\* Whether predict(features) on e runs the auto-train round (lines 111-112)
AutoTrains(e, features) ==
    /\ Accepts(e, features)
    /\ LenAfterAppend(e) >= MinTrainSamples
    /\ ~e.is_trained
    /\ LenAfterAppend(e) >= e.buffer_size

\* Whether predict(features) on e takes the trained branch (line 115)
UsesModel(e, features, fit) ==
    /\ Accepts(e, features)
    /\ LenAfterAppend(e) >= MinTrainSamples
    /\ IF AutoTrains(e, features) THEN fit = "ok" ELSE e.is_trained

\* Mutant of Reset: the counters are not cleared
ResetKeepsCounters(e) ==
    [e EXCEPT !.data_buffer = <<>>, !.anomaly_history = <<>>, !.is_trained = FALSE]

\* reset()
Reset(e) ==
    [e EXCEPT !.data_buffer = <<>>, !.anomaly_history = <<>>, !.is_trained = FALSE,
              !.prediction_count = 0, !.anomaly_count = 0]

\* get_statistics(), without the floating-point means
GetStatistics(e) ==
    [ is_trained       |-> e.is_trained,
      prediction_count |-> e.prediction_count,
      anomaly_count    |-> e.anomaly_count,
      buffer_size      |-> Len(e.data_buffer),
      threshold        |-> Threshold ]

\* ------------------------------------------------------------------------
\* MLService._extract_features
\* ------------------------------------------------------------------------
\* A field of the sensor payload that should hold a mapping {x, y, z}: absent,
\* a mapping (a missing key reads as its default 0.0), or some other JSON value.
Absent == [tag |-> "absent", items |-> <<>>]

Mapping(x, y, z) == [tag |-> "map", items |-> <<x, y, z>>]

List(items) == [tag |-> "list", items |-> items]

Scalar == [tag |-> "scalar", items |-> <<>>]

\* Whether reading x, y, z of the field raises: the value has no .get
\* (AttributeError)
Unreadable(field) == field.tag \notin {"absent", "map"}

\* sensor_data.get(key, {}).get('x', 0.0), .get('y', 0.0), .get('z', 0.0)
Readings(field) == IF field.tag = "map" THEN field.items ELSE <<0, 0, 0>>

\* The euler angles (lines 163-167)
Euler(field) ==
    IF field.tag = "list" /\ Len(field.items) >= 3
    THEN SubSeq(field.items, 1, 3)
    ELSE <<0, 0, 0>>

\* sensor_data.get(key, default) for a number that may be absent
Number(field, default) == IF field.tag = "absent" THEN default ELSE field.items[1]

Num(v) == [tag |-> "num", items |-> <<v>>]

\* Mutant of ExtractFeatures: on an error the values extracted so far are
\* returned, not the zero vector
ExtractFeaturesPartial(d) ==
    IF Unreadable(d.raw_acceleration) THEN <<>>
    ELSE IF Unreadable(d.raw_gyroscope) THEN Readings(d.raw_acceleration)
    ELSE IF Unreadable(d.velocity)
    THEN Readings(d.raw_acceleration) \o Readings(d.raw_gyroscope)
           \o Euler(d.euler_degrees)
    ELSE LET v == Readings(d.velocity)
             vel_magnitude == ISqrt(v[1] * v[1] + v[2] * v[2] + v[3] * v[3])
         IN  Readings(d.raw_acceleration) \o Readings(d.raw_gyroscope)
               \o Euler(d.euler_degrees) \o << vel_magnitude >>
               \o << Number(d.gps_speed, 0), Number(d.gps_heading, 0) >>
               \o << Number(d.confidence, 1), Number(d.system_health, 1) >>

\* _extract_features(sensor_data)
ExtractFeatures(d) ==
    IF \/ Unreadable(d.raw_acceleration)
       \/ Unreadable(d.raw_gyroscope)
       \/ Unreadable(d.velocity)
    THEN [i \in 1..14 |-> 0]
    ELSE LET v == Readings(d.velocity)
             vel_magnitude == ISqrt(v[1] * v[1] + v[2] * v[2] + v[3] * v[3])
         IN  Readings(d.raw_acceleration) \o Readings(d.raw_gyroscope)
               \o Euler(d.euler_degrees) \o << vel_magnitude >>
               \o << Number(d.gps_speed, 0), Number(d.gps_heading, 0) >>
               \o << Number(d.confidence, 1), Number(d.system_health, 1) >>

\* Sensor payloads: every field absent; a full payload; a payload whose
\* velocity is not a mapping.
EmptyBody ==
    [ raw_acceleration |-> Absent, raw_gyroscope |-> Absent, euler_degrees |-> Absent,
      velocity |-> Absent, gps_speed |-> Absent, gps_heading |-> Absent,
      confidence |-> Absent, system_health |-> Absent ]

FullBody ==
    [ raw_acceleration |-> Mapping(0, 0, 1), raw_gyroscope |-> Mapping(0, 0, 0),
      euler_degrees |-> List(<<1, 2, 3, 4>>), velocity |-> Mapping(3, 4, 0),
      gps_speed |-> Num(5), gps_heading |-> Num(2),
      confidence |-> Num(1), system_health |-> Num(1) ]

BrokenBody == [FullBody EXCEPT !.velocity = Scalar]

\* Payloads of every shape: fields absent one group at a time, euler_degrees
\* that is too short or is no list, and each of the three mappings replaced
\* by a value without .get
Bodies ==
    { EmptyBody, FullBody, BrokenBody,
      [FullBody EXCEPT !.raw_acceleration = List(<<0, 0, 1>>)],
      [FullBody EXCEPT !.raw_gyroscope = Scalar],
      [FullBody EXCEPT !.euler_degrees = List(<<1, 2>>)],
      [FullBody EXCEPT !.euler_degrees = Mapping(1, 2, 3)],
      [FullBody EXCEPT !.euler_degrees = Scalar],
      [FullBody EXCEPT !.raw_acceleration = Absent, !.velocity = Absent],
      [EmptyBody EXCEPT !.gps_heading = Num(2), !.confidence = Num(0)],
      [EmptyBody EXCEPT !.raw_gyroscope = Mapping(1, 0, 2), !.system_health = Num(0)] }

\* ------------------------------------------------------------------------
\* Inbound frames
\* ------------------------------------------------------------------------
\* A text frame: not JSON, JSON that is no mapping, or a mapping with its type,
\* the presence of 'timestamp' and 'orientation', and the sensor fields.
Frame(json, type, timestamp, orientation, body) ==
    [ json |-> json, type |-> type, timestamp |-> timestamp,
      orientation |-> orientation, body |-> body ]

Frames ==
    { Frame("invalid", "none", FALSE, FALSE, EmptyBody),
      Frame("array", "none", FALSE, FALSE, EmptyBody),
      Frame("object", "connection", TRUE, TRUE, EmptyBody),
      Frame("object", "none", TRUE, FALSE, EmptyBody),
      Frame("object", "none", TRUE, TRUE, EmptyBody),
      Frame("object", "sensor", TRUE, TRUE, FullBody),
      Frame("object", "none", TRUE, TRUE, BrokenBody) }

\* No frame received yet
NoFrame == Frame("none", "none", FALSE, FALSE, EmptyBody)

\* The frame of a routine sensor sample
RoutineFrame == Frame("object", "sensor", TRUE, TRUE, EmptyBody)

\* Mutant of Forwarded: the type of the message is not looked at
ForwardedIgnoringType(frame) ==
    /\ frame.json = "object"
    /\ frame.timestamp
    /\ frame.orientation

\* Whether _handle_message awaits on_data_callback(data) (lines 132-143)
Forwarded(frame) ==
    /\ frame.json = "object"
    /\ frame.type # "connection"
    /\ frame.timestamp
    /\ frame.orientation

\* Whether json.loads or data.get raises in _handle_message (lines 132-135):
\* the text is not JSON, or the JSON value is no mapping
Malformed(frame) == frame.json # "object"

\* Mutant of HandleMessageRaises: the exception of a malformed frame gets out
HandleMessageRaisesOnMalformed(frame) == Malformed(frame)

\* Whether _handle_message lets an exception out to receive_loop: its except
\* clauses (lines 153-156) catch every Exception
HandleMessageRaises(frame) == FALSE

\* Whether something raised inside the data handler while it processed the
\* payload (the except clause of _extract_features, lines 189-192)
HandlerRaisedInside(frame) ==
    /\ Forwarded(frame)
    /\ \/ Unreadable(frame.body.raw_acceleration)
       \/ Unreadable(frame.body.raw_gyroscope)
       \/ Unreadable(frame.body.velocity)

\* Mutant of UpdateDue: the samples are counted from zero
UpdateDueFromZero(sample_count) == (sample_count - 1) % ModelUpdateInterval = 0

\* self.sample_count % self.config.model_update_interval == 0 (line 113)
UpdateDue(sample_count) == sample_count % ModelUpdateInterval = 0

\* ------------------------------------------------------------------------
\* SensorWebSocketClient and MLService
\* ------------------------------------------------------------------------
\* The service after MLService.__init__, before start() runs.  The fields of
\* the client and of the service, the await the main task is suspended at (pc)
\* with the caller of connect() (ctx), the transport handles made so far and
\* the send of another task that is awaiting (caller, caller_socket).
\* caller_sends counts the calls of send_command and send_heartbeat.
\* shutdown_tasks counts the tasks signal_handler created that have not
\* started.  The last fields record the run: the frames the transport
\* delivered, its failures, the signals, the connect attempts and the sleeps
\* before them, the calls of update_model and send_anomaly_score, and the
\* last event.
NewSession ==
    [ ws_client         |-> FALSE,
      running           |-> FALSE,
      sample_count      |-> 0,
      websocket         |-> NoSocket,
      connected         |-> FALSE,
      should_reconnect  |-> TRUE,
      messages_received |-> 0,
      messages_sent     |-> 0,
      reconnect_count   |-> 0,
      pc                |-> "init",
      ctx               |-> "none",
      score             |-> 0,
      handles           |-> <<>>,
      caller            |-> "idle",
      caller_socket     |-> NoSocket,
      caller_sends      |-> 0,
      frames            |-> 0,
      faults            |-> 0,
      signals           |-> 0,
      shutdown_tasks    |-> 0,
      attempts          |-> 0,
      attempts_after_disconnect |-> 0,
      waited            |-> FALSE,
      attempt_waited    |-> FALSE,
      disconnect_called |-> FALSE,
      update_calls      |-> 0,
      publish_calls     |-> 0,
      event             |-> [kind |-> "none", live |-> TRUE, frame |-> NoFrame] ]

\* The state of the handle self.websocket refers to
SocketState(s) == IF s.websocket = NoSocket THEN "none" ELSE s.handles[s.websocket]

\* Whether data can still be read from or written to a handle: it is open, or
\* close() has been called on it and the closing handshake is not finished
Usable(state) == state \in {"open", "closing"}

\* The record of a step of the main task or of the shutdown task: what
\* happened, whether shutdown had not been requested when it happened, and
\* the frame when a frame was received
Event(s, kind) == [kind |-> kind, live |-> s.should_reconnect, frame |-> NoFrame]

\* await self.connect() is entered (line 56) by start, receive_loop or
\* _reconnect; the record keeps whether a backoff sleep came before it
BeginConnect(s, caller) ==
    [s EXCEPT !.pc = "connecting", !.ctx = caller, !.attempts = @ + 1,
              !.attempts_after_disconnect = IF s.disconnect_called THEN @ + 1 ELSE @,
              !.attempt_waited = s.waited,
              !.waited = FALSE]

\* disconnect() up to its await of websocket.close() (lines 249-256)
Disconnect(s) ==
    [s EXCEPT !.should_reconnect = FALSE,
              !.connected = FALSE,
              !.disconnect_called = TRUE,
              !.handles = IF s.websocket # NoSocket /\ s.handles[s.websocket] = "open"
                          THEN [@ EXCEPT ![s.websocket] = "closing"] ELSE @]

\* MLService.shutdown() up to the await in disconnect()
Shutdown(s) ==
    IF s.ws_client THEN Disconnect([s EXCEPT !.running = FALSE])
    ELSE [s EXCEPT !.running = FALSE]

\* The finally clause of MLService.start(): shutdown() runs, and start()
\* returns when close() has returned
Finally(s) ==
    LET s1 == Shutdown(s)
    IN  [s1 EXCEPT !.pc = IF SocketState(s1) = "closing" THEN "stopping" ELSE "done",
                   !.ctx = "none"]

\* _reconnect() up to its sleep (lines 232-238)
Reconnect(s) == [s EXCEPT !.reconnect_count = @ + 1, !.pc = "backoff", !.ctx = "none"]

\* The head of the while loop of receive_loop (lines 85-91)
LoopTop(s) ==
    IF ~s.should_reconnect THEN Finally(s)
    ELSE IF ~s.connected THEN BeginConnect(s, "loop")
    ELSE [s EXCEPT !.pc = "reading", !.ctx = "none"]

\* The except clauses of receive_loop (lines 94-119)
LoopExcept(s) ==
    IF s.should_reconnect
    THEN Reconnect([s EXCEPT !.connected = FALSE])
    ELSE Finally([s EXCEPT !.connected = FALSE])

\* connect() raised (lines 72-79): what its caller does with the exception
ConnectRaised(s) ==
    CASE s.ctx = "start"     -> Finally([s EXCEPT !.connected = FALSE])
      [] s.ctx = "loop"      -> LoopExcept([s EXCEPT !.connected = FALSE])
      [] s.ctx = "reconnect" -> LoopTop([s EXCEPT !.connected = FALSE])

\* connect() returned: what its caller does next
ConnectReturned(s) ==
    CASE s.ctx = "start"     -> LoopTop([s EXCEPT !.running = TRUE])
      [] s.ctx = "loop"      -> [s EXCEPT !.pc = "reading", !.ctx = "none"]
      [] s.ctx = "reconnect" -> LoopTop(s)

\* Mutant of NotConnected: the state of the connection is not looked at
NotConnectedUnchecked(s) == FALSE

\* not self.connected or not self.websocket (lines 165, 194, 214)
NotConnected(s) == ~s.connected \/ s.websocket = NoSocket

\* send_anomaly_score(score) up to its await (lines 165-176)
SendAnomalyScore(s, score) ==
    IF NotConnected(s) THEN [s EXCEPT !.publish_calls = @ + 1]
    ELSE [s EXCEPT !.publish_calls = @ + 1, !.pc = "sending", !.score = score]

\* send_command(action, parameters) and send_heartbeat() up to their await
\* (lines 194-206 and 214-223), called by a task other than the main task
CallerSend(s, kind) ==
    IF NotConnected(s) THEN [s EXCEPT !.caller_sends = @ + 1]
    ELSE [s EXCEPT !.caller_sends = @ + 1, !.caller = kind,
                   !.caller_socket = s.websocket]

\* Mutant of CanDispatch: a message is taken while the last one is handled
CanDispatchWhileSending(s) == s.pc \in {"reading", "sending"}

\* Whether the main task takes the next message of the connection: the loop
\* `async for message in self.websocket: await self._handle_message(message)`
\* (lines 91-92) asks for it when the handling of the last one has returned
CanDispatch(s) == s.pc = "reading"

\* ------------------------------------------------------------------------
\* State
\* ------------------------------------------------------------------------
VARIABLES
    detector,     \* the service's AnomalyDetector
    twin,         \* a detector constructed at the last reset() and given the same calls
    last,         \* the last call on the detector: operation, arguments, result
    twinRet,      \* what the twin returned for the last call
    ncalls,       \* calls made on the detector
    odd,          \* calls that were not routine
    resets,       \* reset() calls made
    accepted,     \* the vectors predict accepted since the last reset(), in order
    session       \* the service, its client and its main task

engine == << detector, twin, last, twinRet, ncalls, odd, resets, accepted >>

vars == << detector, twin, last, twinRet, ncalls, odd, resets, accepted, session >>

NoCall == [ op |-> "none", features |-> <<>>, ret |-> 0, path |-> "none",
            fit |-> "none", outcome |-> RoutineOutcome, pair |-> <<0, 0>> ]

Init ==
    /\ detector = NewDetector(BufferSize)
    /\ twin = NewDetector(BufferSize)
    /\ last = NoCall
    /\ twinRet = 0
    /\ ncalls = 0
    /\ odd = 0
    /\ resets = 0
    /\ accepted = <<>>
    /\ session = NewSession

\* buffer_size values below the training floor: no buffer at all, and one
\* below the floor
SmallSizes == { 0, MinTrainSamples - 1 }

\* The state after AnomalyDetector(buffer_size) with a buffer_size below 20
SmallInit ==
    /\ \E size \in SmallSizes :
         /\ detector = NewDetector(size)
         /\ twin = NewDetector(size)
    /\ last = NoCall
    /\ twinRet = 0
    /\ ncalls = 0
    /\ odd = 0
    /\ resets = 0
    /\ accepted = <<>>
    /\ session = NewSession

\* 1 when the condition holds, for counting the non-routine inputs of a call
Cost(b) == IF b THEN 1 ELSE 0

\* The inputs of one predict call that the budget of non-routine calls allows:
\* the vector, the outcome of the auto-train round when the call runs one, and
\* the outcome of the trained branch when the call takes it.
VectorChoices == IF odd < MaxOdd THEN Vectors ELSE {BaseVec}

FitChoices(features) ==
    IF /\ AutoTrains(detector, features) \/ AutoTrains(twin, features)
       /\ odd + Cost(features # BaseVec) < MaxOdd
    THEN FitOutcomes ELSE {"ok"}

OutcomeChoices(features, fit) ==
    IF /\ UsesModel(detector, features, fit) \/ UsesModel(twin, features, fit)
       /\ odd + Cost(features # BaseVec) + Cost(fit # "ok") < MaxOdd
    THEN ScoreOutcomes ELSE {RoutineOutcome}

\* self.anomaly_detector.predict(features)
DoPredict ==
    /\ ncalls < MaxCalls
    /\ \E features \in VectorChoices :
       \E fit \in FitChoices(features) :
       \E outcome \in OutcomeChoices(features, fit) :
       \E r \in {Predict(detector, features, fit, outcome)} :
       \E t \in {IF twin = detector THEN r ELSE Predict(twin, features, fit, outcome)} :
         /\ detector' = r.det
         /\ twin' = t.det
         /\ twinRet' = t.ret
         /\ last' = [ op |-> "predict", features |-> features, ret |-> r.ret,
                      path |-> r.path,
                      fit |-> IF AutoTrains(detector, features) THEN fit ELSE "none",
                      outcome |-> outcome,
                      pair |-> r.pair ]
         /\ odd' = odd + Cost(features # BaseVec) + Cost(fit # "ok")
                       + Cost(outcome # RoutineOutcome)
         /\ accepted' = IF r.path \in {"empty", "mismatch"} THEN accepted
                        ELSE Append(accepted, features)
    /\ ncalls' = ncalls + 1
    /\ UNCHANGED << resets, session >>

\* self.anomaly_detector.update_model()
DoUpdateModel ==
    /\ ncalls < MaxCalls
    /\ odd < MaxOdd
    /\ \E fit \in IF Len(detector.data_buffer) >= MinTrainSamples
                      \/ Len(twin.data_buffer) >= MinTrainSamples
                   THEN FitOutcomes ELSE {"ok"} :
         /\ detector' = UpdateModel(detector, fit)
         /\ twin' = UpdateModel(twin, fit)
         /\ last' = [ op |-> "update_model", features |-> <<>>, ret |-> 0,
                      path |-> "none",
                      fit |-> IF Len(detector.data_buffer) >= MinTrainSamples
                              THEN fit ELSE "none",
                      outcome |-> RoutineOutcome,
                      pair |-> <<0, 0>> ]
    /\ odd' = odd + 1
    /\ ncalls' = ncalls + 1
    /\ UNCHANGED << twinRet, resets, accepted, session >>

\* self.anomaly_detector.reset()
DoReset ==
    /\ ncalls < MaxCalls
    /\ odd < MaxOdd
    /\ detector' = Reset(detector)
    /\ twin' = NewDetector(detector.buffer_size)
    /\ last' = [NoCall EXCEPT !.op = "reset"]
    /\ twinRet' = 0
    /\ odd' = odd + 1
    /\ ncalls' = ncalls + 1
    /\ resets' = resets + 1
    /\ accepted' = <<>>
    /\ UNCHANGED session

Next ==
    \/ DoPredict
    \/ DoUpdateModel
    \/ DoReset

Spec == Init /\ [][Next]_vars

SmallSpec == SmallInit /\ [][Next]_vars

\* ------------------------------------------------------------------------
\* The session: MLService.start() and the shutdown tasks
\* ------------------------------------------------------------------------
\* start() creates the client and awaits its first connect() (lines 64-74)
StartService ==
    /\ session.pc = "init"
    /\ session' = [BeginConnect([session EXCEPT !.ws_client = TRUE], "start")
                     EXCEPT !.attempt_waited = TRUE,
                            !.event = Event(session, "connect_started")]
    /\ UNCHANGED engine

\* websockets.connect returns a handle (lines 58-66); connect() awaits the
\* welcome message
ConnectOpens ==
    /\ session.pc = "connecting"
    /\ session' = [session EXCEPT !.handles = Append(@, "open"),
                                  !.websocket = Len(session.handles) + 1,
                                  !.connected = TRUE,
                                  !.pc = "welcome",
                                  !.event = Event(session, "opened")]
    /\ UNCHANGED engine

\* websockets.connect raises (refused, timeout, handshake error)
ConnectFails ==
    /\ session.pc = "connecting"
    /\ session.faults < MaxFaults
    /\ session' = [ConnectRaised([session EXCEPT !.faults = @ + 1])
                     EXCEPT !.event = Event(session, "connect_failed")]
    /\ UNCHANGED engine

\* The welcome message arrives and connect() returns (lines 69-70)
WelcomeArrives ==
    /\ session.pc = "welcome"
    /\ Usable(SocketState(session))
    /\ session' = [ConnectReturned(session) EXCEPT !.event = Event(session, "connected")]
    /\ UNCHANGED engine

\* recv() of the welcome message raises: the channel closed first
WelcomeFails ==
    /\ session.pc = "welcome"
    /\ \/ SocketState(session) # "open"
       \/ session.faults < MaxFaults
    /\ session' =
         [ConnectRaised(
              [session EXCEPT
                 !.faults = IF SocketState(session) = "open" THEN @ + 1 ELSE @,
                 !.handles = IF SocketState(session) = "open"
                             THEN [@ EXCEPT ![session.websocket] = "closed_error"]
                             ELSE @])
            EXCEPT !.event = Event(session, "connect_failed")]
    /\ UNCHANGED engine

\* _handle_message(message) up to the next await of the main task: the frame
\* is counted and decoded; a frame that is forwarded goes through
\* process_sensor_data (sample_count, _extract_features, predict, the periodic
\* update_model, send_anomaly_score up to the await of websocket.send)
Receive(frame) ==
    LET s1 == [session EXCEPT !.frames = @ + 1,
                              !.messages_received = @ + 1,
                              !.event = [Event(session, "frame") EXCEPT !.frame = frame]]
    IN  /\ odd' = odd + Cost(frame # RoutineFrame)
        /\ IF HandleMessageRaises(frame)
           THEN /\ session' = LoopExcept(s1)
                /\ UNCHANGED << detector, twin, last, twinRet, ncalls, resets, accepted >>
           ELSE IF Malformed(frame) \/ ~Forwarded(frame)
           THEN /\ session' = s1
                /\ UNCHANGED << detector, twin, last, twinRet, ncalls, resets, accepted >>
           ELSE \E features \in {ExtractFeatures(frame.body)} :
                \E r \in {Predict(detector, features, "ok", RoutineOutcome)} :
                \E t \in {IF twin = detector THEN r
                          ELSE Predict(twin, features, "ok", RoutineOutcome)} :
                \E due \in {UpdateDue(session.sample_count + 1)} :
                  /\ detector' = IF due THEN UpdateModel(r.det, "ok") ELSE r.det
                  /\ twin' = IF due THEN UpdateModel(t.det, "ok") ELSE t.det
                  /\ twinRet' = t.ret
                  /\ last' = [ op |-> "predict", features |-> features,
                               ret |-> r.ret, path |-> r.path,
                               fit |-> IF \/ AutoTrains(detector, features)
                                          \/ due /\ Len(r.det.data_buffer) >= MinTrainSamples
                                       THEN "ok" ELSE "none",
                               outcome |-> RoutineOutcome,
                               pair |-> r.pair ]
                  /\ ncalls' = ncalls + 1
                  /\ accepted' = IF r.path \in {"empty", "mismatch"} THEN accepted
                                 ELSE Append(accepted, features)
                  /\ UNCHANGED resets
                  /\ session' = SendAnomalyScore(
                                    [s1 EXCEPT !.sample_count = @ + 1,
                                               !.update_calls = IF due THEN @ + 1 ELSE @],
                                    r.ret)

\* A frame arrives on the connection of the session
FrameArrives ==
    /\ CanDispatch(session)
    /\ Usable(SocketState(session))
    /\ session.messages_received < MaxFrames
    /\ \E frame \in Frames : Receive(frame)

\* A frame arrives on a connection that stays up: mostly routine samples
SampleArrives ==
    /\ CanDispatch(session)
    /\ SocketState(session) = "open"
    /\ session.messages_received < MaxSamples
    /\ \E frame \in IF odd < MaxOddSamples THEN Frames \cup {RoutineFrame}
                    ELSE {RoutineFrame} :
         Receive(frame)

\* A sensor payload of any shape arrives on a connection that stays up
PayloadArrives ==
    /\ CanDispatch(session)
    /\ SocketState(session) = "open"
    /\ session.messages_received < MaxPayloads
    /\ \E body \in Bodies : Receive(Frame("object", "sensor", TRUE, TRUE, body))

\* Whether a send on a handle can succeed, and whether it can fail: a send on
\* an open handle fails when the transport does, a send on a handle that is
\* being closed may have been written before the close frame or not
SendResults(s, state) ==
    CASE state = "open"    -> IF s.faults < MaxFaults THEN BOOLEAN ELSE {TRUE}
      [] state = "closing" -> BOOLEAN
      [] OTHER             -> {FALSE}

\* websocket.send of send_anomaly_score returns or raises (lines 176-184); a
\* raise is swallowed and the message is not counted
SendCompletes ==
    /\ session.pc = "sending"
    /\ \E ok \in SendResults(session, SocketState(session)) :
         session' = [session EXCEPT
                       !.messages_sent = IF ok THEN @ + 1 ELSE @,
                       !.faults = IF ~ok /\ SocketState(session) = "open"
                                  THEN @ + 1 ELSE @,
                       !.pc = "reading",
                       !.event = Event(session, IF ok THEN "sent" ELSE "send_failed")]
    /\ UNCHANGED engine

\* Another task calls send_command(action, parameters)
CallSendCommand ==
    /\ session.ws_client
    /\ session.caller = "idle"
    /\ session.caller_sends < MaxCallerSends
    /\ session' = CallerSend(session, "command")
    /\ UNCHANGED engine

\* Another task calls send_heartbeat()
CallSendHeartbeat ==
    /\ session.ws_client
    /\ session.caller = "idle"
    /\ session.caller_sends < MaxCallerSends
    /\ session' = CallerSend(session, "heartbeat")
    /\ UNCHANGED engine

\* websocket.send of send_command or send_heartbeat returns or raises (lines
\* 206-210 and 223-226); a raise is swallowed, and neither counts the message
CallerSendCompletes ==
    /\ session.caller # "idle"
    /\ \E ok \in IF Usable(session.handles[session.caller_socket])
                   THEN BOOLEAN ELSE {FALSE} :
         session' = [session EXCEPT
                       !.caller = "idle",
                       !.caller_socket = NoSocket]
    /\ UNCHANGED engine

\* The channel is closed cleanly (close code 1000 or 1001), by the peer now or
\* by disconnect() before: the iteration `async for message in self.websocket`
\* ends without an exception and receive_loop goes round its while loop
ReadEnds ==
    /\ session.pc = "reading"
    /\ \/ SocketState(session) = "closed_ok"
       \/ SocketState(session) = "open" /\ session.faults < MaxFaults
    /\ session' =
         [LoopTop([session EXCEPT
                     !.faults = IF SocketState(session) = "open" THEN @ + 1 ELSE @,
                     !.handles = [@ EXCEPT ![session.websocket] = "closed_ok"]])
            EXCEPT !.event = Event(session, "closed_clean")]
    /\ UNCHANGED engine

\* The channel closes with an error or the transport fails while reading: the
\* iteration raises ConnectionClosed, WebSocketException or another exception
ChannelError ==
    /\ session.pc = "reading"
    /\ SocketState(session) = "open"
    /\ session.faults < MaxFaults
    /\ session' =
         [LoopExcept([session EXCEPT
                        !.faults = @ + 1,
                        !.handles = [@ EXCEPT ![session.websocket] = "closed_error"]])
            EXCEPT !.event = Event(session, "closed_error")]
    /\ UNCHANGED engine

\* asyncio.sleep(self.reconnect_interval) returns and _reconnect awaits
\* connect() (lines 238-241)
BackoffElapses ==
    /\ session.pc = "backoff"
    /\ session' = [BeginConnect([session EXCEPT !.waited = TRUE], "reconnect")
                     EXCEPT !.event = Event(session, "connect_started")]
    /\ UNCHANGED engine

\* SIGTERM or SIGINT: signal_handler (lines 227-229) creates the task that
\* will run service.shutdown() and returns to the event loop; nothing of the
\* service has changed yet, and the main task may run before the new task.
\* The handlers are registered just before start() is awaited (lines 231-235)
\* and stay registered after it has returned.
ShutdownSignal ==
    /\ session.pc # "init"
    /\ session.signals < MaxSignals
    /\ session' = [session EXCEPT !.signals = @ + 1,
                                  !.shutdown_tasks = @ + 1]
    /\ UNCHANGED engine

\* The event loop starts a task that signal_handler created: shutdown() runs
\* up to the await in disconnect(), while the main task is suspended at an
\* await or after start() has returned.
ShutdownStarts ==
    /\ session.shutdown_tasks > 0
    /\ session' = [Shutdown(session) EXCEPT !.shutdown_tasks = @ - 1,
                                            !.event = Event(session, "shutdown")]
    /\ UNCHANGED engine

\* The closing handshake that disconnect() started ends and close() returns
\* (lines 256-257); start() returns if it was waiting for it
CloseCompletes ==
    /\ \E h \in 1..Len(session.handles) : session.handles[h] = "closing"
    /\ session' = [session EXCEPT
                     !.handles = [h \in 1..Len(session.handles) |->
                                    IF session.handles[h] = "closing" THEN "closed_ok"
                                    ELSE session.handles[h]],
                     !.pc = IF @ = "stopping" THEN "done" ELSE @,
                     !.event = Event(session, "closed")]
    /\ UNCHANGED engine

SessionNext ==
    \/ StartService
    \/ ConnectOpens
    \/ ConnectFails
    \/ WelcomeArrives
    \/ WelcomeFails
    \/ FrameArrives
    \/ SendCompletes
    \/ CallSendCommand
    \/ CallSendHeartbeat
    \/ CallerSendCompletes
    \/ ReadEnds
    \/ ChannelError
    \/ BackoffElapses
    \/ ShutdownSignal
    \/ ShutdownStarts
    \/ CloseCompletes

SessionSpec == Init /\ [][SessionNext]_vars

\* ------------------------------------------------------------------------
\* The service over one connection that stays up
\* ------------------------------------------------------------------------
ServiceNext ==
    \/ StartService
    \/ ConnectOpens
    \/ WelcomeArrives
    \/ SampleArrives
    \/ SendCompletes

ServiceSpec == Init /\ [][ServiceNext]_vars

\* ------------------------------------------------------------------------
\* The service fed with sensor payloads of every shape
\* ------------------------------------------------------------------------
PayloadNext ==
    \/ StartService
    \/ ConnectOpens
    \/ WelcomeArrives
    \/ PayloadArrives
    \/ SendCompletes

PayloadSpec == Init /\ [][PayloadNext]_vars

\* ------------------------------------------------------------------------
\* Properties of the detector
\* ------------------------------------------------------------------------
\* A step that is a call on the detector (not a stuttering step)
IsCall == ncalls' = ncalls + 1

\* C1: every predict call returns a score s with 0 <= s <= 1, whatever calls
\* came before it, also when a training round failed or the trained branch
\* raised and the statistical score was returned.
C1_ScoreInUnitInterval ==
    last.op = "predict" => (0 <= last.ret /\ last.ret <= ScoreOne)

\* C1 witness: the trained branch raised on a sample far from the history and
\* the call returned the statistical score.
C1_Witness ==
    /\ last.op = "predict"
    /\ last.path = "fallback"
    /\ last.ret = ScoreOne

\* C2: once the dimension is fixed, a predict call with a vector of another
\* length (the empty vector included) returns 0.0 and leaves the buffer, the
\* trained flag, the score history and the anomaly counter as they were.
C2_MismatchLeavesState ==
    [][ ( /\ IsCall
          /\ last'.op = "predict"
          /\ detector.feature_count # None
          /\ Len(last'.features) # detector.feature_count )
        => ( /\ last'.ret = 0
             /\ detector'.data_buffer = detector.data_buffer
             /\ detector'.is_trained = detector.is_trained
             /\ detector'.anomaly_history = detector.anomaly_history
             /\ detector'.anomaly_count = detector.anomaly_count
             /\ detector'.feature_count = detector.feature_count ) ]_vars

\* C2 witness: a trained detector with a full buffer has just rejected a
\* vector of another length.
C2_Witness ==
    /\ last.op = "predict"
    /\ last.path = "mismatch"
    /\ last.features # <<>>
    /\ detector.is_trained
    /\ Len(detector.data_buffer) = detector.buffer_size

\* What a caller can observe of a detector
Observable(e) ==
    [ buffer           |-> e.data_buffer,
      is_trained       |-> e.is_trained,
      prediction_count |-> e.prediction_count,
      anomaly_count    |-> e.anomaly_count,
      history          |-> e.anomaly_history ]

\* C3: after reset() the detector behaves like a freshly constructed one given
\* the same calls: same scores, same buffer, same trained flag, same counters.
C3_ResetLikeFresh ==
    resets > 0 => (Observable(detector) = Observable(twin) /\ last.ret = twinRet)

\* C7: a predict call that takes the trained branch uses a scaler and an
\* ensemble fitted in the same update_model round, and a detector that is
\* trained holds such a pair.
C7_PairFromOneRound ==
    /\ last.path \in {"model", "fallback"} =>
          (last.pair[1] = last.pair[2] /\ last.pair[1] # 0)
    /\ detector.is_trained =>
          (detector.scaler = detector.model /\ detector.model # 0)

\* C7 witness: a prediction on the trained branch whose own auto-train round
\* succeeded after an earlier round on the full buffer had not left the
\* detector trained.
C7_Witness ==
    /\ last.op = "predict"
    /\ last.path = "model"
    /\ last.fit = "ok"
    /\ detector.rounds >= 2

\* A training round failed in the last call
RoundFailed(call) == call.fit \in {"scaler_raises", "forest_raises", "report_raises"}

\* C8 as stated: when update_model fails, the trained flag keeps its value and
\* the scaler is not left newly fitted next to the previous ensemble.
C8_FlagKeptOnFailure ==
    [][ (IsCall /\ RoundFailed(last'))
        => ( /\ detector'.is_trained = detector.is_trained
             /\ detector'.scaler = detector'.model ) ]_vars

\* C8 amended: when update_model fails, the trained flag is false afterwards,
\* whatever it was before; the scaler and the ensemble may then come from
\* different rounds, and the ensemble is never newer than the scaler's round.
C8_FailureUntrains ==
    RoundFailed(last) =>
        ( /\ ~detector.is_trained
          /\ detector.model <= detector.rounds
          /\ detector.scaler \in {0, detector.rounds} )

\* C8 witness: a trained detector ran a round whose ensemble fit raised; it
\* holds the new scaler next to the previous ensemble and is untrained.
C8_Witness ==
    /\ last.op = "update_model"
    /\ last.fit = "forest_raises"
    /\ detector.model # 0
    /\ detector.scaler # detector.model
    /\ ~detector.is_trained

\* C9: update_model with fewer than 20 buffered samples changes nothing of the
\* detector.
C9_UpdateBelowFloorIsNoOp ==
    [][ ( /\ IsCall
          /\ last'.op = "update_model"
          /\ Len(detector.data_buffer) < MinTrainSamples )
        => detector' = detector ]_vars

\* C9 witness: update_model was called with 19 samples buffered.
C9_Witness ==
    /\ last.op = "update_model"
    /\ Len(detector.data_buffer) = MinTrainSamples - 1
    /\ ~detector.is_trained

\* C10: an accepted predict call that leaves fewer than 20 samples buffered
\* returns the statistical score of its vector over the buffered samples
\* before it (0 below the scorer's floor).
C10_ColdStartIsStatistical ==
    ( /\ last.op = "predict"
      /\ last.path \notin {"empty", "mismatch"}
      /\ Len(detector.data_buffer) < MinTrainSamples )
    => last.ret = (ScoreOne \div UnitOne) *
          ( IF Len(detector.data_buffer) < MinStatSamples THEN 0
            ELSE Min(UnitOne,
                     MaxFeatureScore(
                         SubSeq(detector.data_buffer, 1, Len(detector.data_buffer) - 1),
                         last.features, Len(last.features))) )

\* C10 witness: a cold-start call returned a score strictly between 0 and 1.
C10_Witness ==
    /\ last.op = "predict"
    /\ last.path = "cold"
    /\ 0 < last.ret
    /\ last.ret < ScoreOne

\* The samples that were buffered before the vector of the last accepted
\* predict call: the buffer without the vector just appended
HistoricalSamples == Len(detector.data_buffer) - 1

\* C11: a predict call that returns the statistical score returns 0.0 when
\* fewer than 5 samples were buffered before its vector; a non-zero
\* statistical score needs at least 5 historical samples.
C11_ZeroBelowFiveHistorical ==
    ( /\ last.op = "predict"
      /\ last.path \in {"cold", "stat", "fallback"}
      /\ HistoricalSamples < MinStatSamples )
    => last.ret = 0

\* C14: the anomaly counter counts the predict calls since the last reset
\* whose returned score exceeded the threshold: a predict call adds one to it
\* when it returns a score above the threshold and leaves it alone otherwise.
C14_CountsScoresOverThreshold ==
    [][ (IsCall /\ last'.op = "predict")
        => GetStatistics(detector').anomaly_count =
              GetStatistics(detector).anomaly_count
                  + (IF last'.ret > Threshold THEN 1 ELSE 0) ]_vars

\* The blend 0.7 * model + 0.3 * statistical of a call, from the decision
\* value the ensemble gave and the buffer the call left
Blend(call, buf) ==
    7 * NormalizeScore(call.outcome.decision)
        + 3 * StatisticalAnomalyScore(buf, call.features)

\* C18: a predict call runs a training round exactly when it accepts its
\* vector, the buffer is then at full capacity and the detector is not
\* trained; it runs one round, and when the round succeeds the same call
\* scores on the trained branch and returns the blend (the statistical score
\* alone if scaling or scoring raises).
C18_AutoTrainAtCapacity ==
    [][ (IsCall /\ last'.op = "predict")
        => LET took_sample == last'.path \notin {"empty", "mismatch"}
               at_capacity == Len(detector'.data_buffer) = detector.buffer_size
           IN  /\ detector'.rounds # detector.rounds
                     <=> (took_sample /\ at_capacity /\ ~detector.is_trained)
               /\ detector'.rounds \in {detector.rounds, detector.rounds + 1}
               /\ (detector'.rounds # detector.rounds /\ detector'.is_trained)
                     => /\ last'.path \in {"model", "fallback"}
                        /\ last'.path = "model"
                              => last'.ret = Blend(last', detector'.data_buffer) ]_vars

\* C18 witness: a call below capacity with 20 samples buffered did not train,
\* and the call that filled the buffer trained and returned the blend.
C18_Witness ==
    /\ last.op = "predict"
    /\ last.fit = "ok"
    /\ last.path = "model"
    /\ detector.rounds = 1
    /\ Len(detector.data_buffer) = detector.buffer_size
    /\ detector.buffer_size > MinTrainSamples
    /\ last.ret # (ScoreOne \div UnitOne)
                     * StatisticalAnomalyScore(detector.data_buffer, last.features)

\* The last n entries of a sequence
LastN(q, n) == SubSeq(q, Len(q) - n + 1, Len(q))

\* C20: the buffer holds the last min(capacity, number accepted) vectors that
\* predict accepted since the last reset, in arrival order, never more than
\* capacity entries, all of one length.
C20_BufferIsRecentWindow ==
    /\ detector.data_buffer =
           LastN(accepted, Min(detector.buffer_size, Len(accepted)))
    /\ Len(detector.data_buffer) <= detector.buffer_size
    /\ \A i, j \in 1..Len(detector.data_buffer) :
           Len(detector.data_buffer[i]) = Len(detector.data_buffer[j])

\* C20 witness: more vectors were accepted than the buffer holds, and the
\* oldest, which differed from the rest, was evicted.
C20_Witness ==
    /\ Len(accepted) > detector.buffer_size
    /\ accepted[1] # BaseVec
    /\ Len(detector.data_buffer) = detector.buffer_size
    /\ detector.data_buffer[1] = BaseVec

\* ------------------------------------------------------------------------
\* Properties of the session
\* ------------------------------------------------------------------------
\* Transport handles that are open
OpenHandles(s) == { h \in 1..Len(s.handles) : s.handles[h] = "open" }

\* C4: after disconnect() has been called, in whatever state, no new connect
\* attempt is started, the session never reports connected again, and no
\* transport handle is left open when the service has stopped.
C4_DisconnectIsFinal ==
    session.disconnect_called =>
        ( /\ session.attempts_after_disconnect = 0
          /\ ~session.connected
          /\ session.pc = "done" => OpenHandles(session) = {} )

\* C5: every failed connect attempt made while shutdown has not been requested,
\* the first one included, moves the session to the reconnect wait; the
\* failure does not end the session.
C5_FailedConnectWaits ==
    (session.event.kind = "connect_failed" /\ session.event.live) =>
        ( /\ session.pc = "backoff"
          /\ session.should_reconnect )

\* C6: whenever the channel closes, cleanly or with an error, while the session
\* is reading and shutdown has not been requested, the session marks itself
\* not connected and enters the reconnect wait.
C6_ClosureWaits ==
    (session.event.kind \in {"closed_clean", "closed_error"} /\ session.event.live) =>
        ( /\ ~session.connected
          /\ session.pc = "backoff" )

\* A step in which the main task receives a frame
IsFrame == session'.frames = session.frames + 1

\* C12: a send_anomaly_score, send_command or send_heartbeat call made while
\* the session is not connected hands nothing to the transport and returns:
\* the call leaves no send awaiting, the sent counter, the connection state
\* and the handles stay as they were and the main task goes on reading.  A send that fails
\* while connected is swallowed: it is not counted and the connection state
\* stays as it was.
C12_SendsAreFireAndForget ==
    [][ /\ ( /\ \/ session'.publish_calls # session.publish_calls
                \/ session'.caller_sends # session.caller_sends
             /\ ~session.connected \/ session.websocket = NoSocket )
           => ( /\ session'.pc = session.pc
                /\ session'.caller = session.caller
                /\ session'.messages_sent = session.messages_sent
                /\ session'.connected = session.connected
                /\ session'.websocket = session.websocket
                /\ session'.handles = session.handles )
        /\ ( /\ session.pc = "sending"
             /\ session'.event.kind = "send_failed" )
           => ( /\ session'.pc = "reading"
                /\ session'.messages_sent = session.messages_sent
                /\ session'.connected = session.connected
                /\ session'.should_reconnect = session.should_reconnect
                /\ session'.handles = session.handles )
        /\ ( session.caller # "idle" /\ session'.caller = "idle" )
           => ( /\ session'.pc = session.pc
                /\ session'.messages_sent = session.messages_sent
                /\ session'.connected = session.connected
                /\ session'.handles = session.handles ) ]_vars

\* C12 witness: after a shutdown request the session is not connected; a
\* sensor frame was processed and its score was not sent, and a command or a
\* heartbeat was asked for as well.
C12_Witness ==
    /\ ~session.connected
    /\ session.event.kind = "frame"
    /\ Forwarded(session.event.frame)
    /\ session.pc = "reading"
    /\ session.publish_calls = 1
    /\ session.messages_sent = 0
    /\ session.caller_sends = 1
    /\ session.caller = "idle"

\* C13: the data handler is invoked once for a frame that decodes to a
\* mapping whose type is not "connection" and that holds a timestamp and an
\* orientation, and is not invoked for any other frame.
C13_ForwardedExactlySensorData ==
    [][ IsFrame
        => LET f == session'.event.frame
           IN  session'.sample_count - session.sample_count =
                 IF /\ f.json = "object"
                    /\ f.type # "connection"
                    /\ f.timestamp
                    /\ f.orientation
                 THEN 1 ELSE 0 ]_vars

\* C13 witness: after a sensor frame that was forwarded, a "connection"
\* message carrying a timestamp and an orientation was not.
C13_Witness ==
    /\ session.event.kind = "frame"
    /\ session.event.frame.type = "connection"
    /\ session.event.frame.timestamp
    /\ session.event.frame.orientation
    /\ session.messages_received = 2
    /\ session.sample_count = 1

\* C15: every connect attempt after the first comes after a backoff sleep,
\* and the reconnect counter has counted every re-attempt.
C15_BackoffBeforeEveryAttempt ==
    (session.pc = "connecting" /\ session.attempts >= 2)
    => ( /\ session.attempt_waited
         /\ session.reconnect_count = session.attempts - 1 )

\* C16: a frame is dispatched only when the handling of the frame before it is
\* over: no score is waiting to be sent, every forwarded frame so far has had
\* its predict call, its update_model when due and its send, and the predict
\* call of this frame extends the history of the frames before it.
C16_OneFrameAtATime ==
    [][ IsFrame
        => LET f == session'.event.frame
           IN  /\ session.pc = "reading"
               /\ session.publish_calls = session.sample_count
               /\ detector.prediction_count = session.sample_count
               /\ session.update_calls = session.sample_count \div ModelUpdateInterval
               /\ Forwarded(f)
                    => /\ last'.features = ExtractFeatures(f.body)
                       /\ accepted' = Append(accepted, last'.features)
                       /\ detector'.prediction_count = session'.sample_count
                       /\ session'.publish_calls = session'.sample_count ]_vars

\* C16 witness: the score of the first sample was sent over the connection,
\* shutdown() then ran while the main task was suspended, before the second
\* sample was dispatched, and the second sample was processed after it.
C16_Witness ==
    /\ session.messages_sent = 1
    /\ session.disconnect_called
    /\ ~session.event.live
    /\ session.event.kind = "frame"
    /\ session.sample_count = 2
    /\ Len(accepted) = 2

\* C17: a frame that is not JSON or not a mapping, and a payload on which the
\* data handler raised inside, do not end the session: the frame is counted,
\* the connection state, the reconnect counter and the handles stay as they
\* were, and the main task goes on with the connection.
C17_BadFramesAreSkipped ==
    [][ ( /\ IsFrame
          /\ \/ session'.event.frame.json # "object"
             \/ HandlerRaisedInside(session'.event.frame) )
        => ( /\ session'.messages_received = session.messages_received + 1
             /\ session'.connected = session.connected
             /\ session'.should_reconnect = session.should_reconnect
             /\ session'.reconnect_count = session.reconnect_count
             /\ session'.handles = session.handles
             /\ session'.websocket = session.websocket
             /\ session'.pc \in {"reading", "sending"}
             /\ session'.event.frame.json # "object" => session'.pc = "reading" ) ]_vars

\* C17 witness: the second frame was not JSON; it was counted and the session
\* is still connected and reading.
C17_Witness ==
    /\ session.event.kind = "frame"
    /\ session.event.frame.json = "invalid"
    /\ session.frames = 2
    /\ session.messages_received = 2
    /\ session.connected
    /\ session.pc = "reading"
    /\ SocketState(session) = "open"

\* C19: update_model has been invoked once for every forwarded payload whose
\* arrival index is a multiple of the interval and for no other, after the
\* predict call of that payload (the sample that brings the buffer to 20 is
\* scored before the round it triggers) and before its score is sent, and
\* send_anomaly_score has been invoked for every forwarded payload, with the
\* score predict returned.
C19_PeriodicUpdateThenPublish ==
    /\ session.update_calls = session.sample_count \div ModelUpdateInterval
    /\ session.publish_calls = session.sample_count
    /\ session.pc = "sending" => session.score = last.ret
    /\ ( /\ session.sample_count > 0
         /\ session.sample_count % ModelUpdateInterval = 0
         /\ Len(detector.data_buffer) >= MinTrainSamples )
       => detector.rounds > 0
    /\ ( /\ detector.rounds = 1
         /\ Len(detector.data_buffer) = MinTrainSamples
         /\ Len(detector.data_buffer) < detector.buffer_size )
       => last.path = "stat"

\* C19 witness: the periodic round trained the detector before the buffer was
\* full, and the score of a later payload, from the trained branch, is being
\* sent.
C19_Witness ==
    /\ detector.is_trained
    /\ last.path = "model"
    /\ session.pc = "sending"
    /\ session.score = last.ret
    /\ session.update_calls >= MinTrainSamples \div ModelUpdateInterval
    /\ session.messages_sent >= MinTrainSamples

\* ------------------------------------------------------------------------
\* Counters, feature extraction, small capacities, score history
\* ------------------------------------------------------------------------
\* C21: between resets the counters only grow.  Every predict call, accepted
\* or rejected, adds exactly one to prediction_count and never lowers
\* anomaly_count; update_model leaves both alone; reset sets both to zero; and
\* after every call anomaly_count <= prediction_count, so the reported
\* anomaly rate lies in [0, 1].
C21_CountersOnlyGrow ==
    [][ IsCall =>
          /\ detector'.anomaly_count >= 0
          /\ detector'.anomaly_count <= detector'.prediction_count
          /\ last'.op = "predict" =>
                /\ detector'.prediction_count = detector.prediction_count + 1
                /\ detector'.anomaly_count >= detector.anomaly_count
          /\ last'.op = "update_model" =>
                /\ detector'.prediction_count = detector.prediction_count
                /\ detector'.anomaly_count = detector.anomaly_count
          /\ last'.op = "reset" =>
                /\ detector'.prediction_count = 0
                /\ detector'.anomaly_count = 0 ]_vars

\* A predict call has flagged an anomaly: both counters have grown, the
\* anomaly counter less than the prediction counter
C21_Witness ==
    /\ last.op = "predict"
    /\ last.ret > Threshold
    /\ detector.anomaly_count > 0
    /\ detector.prediction_count = ncalls
    /\ detector.prediction_count > detector.anomaly_count

\* The first three entries of a payload's euler_degrees when it is a list or
\* tuple of at least three, and three zeros otherwise
Angles(d) ==
    IF d.euler_degrees.tag = "list" /\ Len(d.euler_degrees.items) >= 3
    THEN << d.euler_degrees.items[1], d.euler_degrees.items[2], d.euler_degrees.items[3] >>
    ELSE << 0, 0, 0 >>

\* The value of a payload field that holds a number, or the default
Field(field, default) == IF field.tag = "num" THEN field.items[1] ELSE default

\* The x, y, z of a payload field that holds a mapping, or the defaults
Axes(field) == IF field.tag = "map" THEN field.items ELSE << 0, 0, 0 >>

\* C22: for every forwarded sensor payload the service hands predict a vector
\* of exactly 14 values: accelerometer x, y, z, gyroscope x, y, z, three
\* orientation angles, the velocity magnitude, GPS speed, GPS heading,
\* confidence and system health, in this order; when a nested field is not a
\* mapping it hands it 14 zeros.  The detector therefore never rejects a
\* vector of the service for its dimension.
C22_FourteenFeatures ==
    [][ (IsFrame /\ Forwarded(session'.event.frame)) =>
          LET d == session'.event.frame.body
              f == last'.features
          IN  /\ last'.op = "predict"
              /\ Len(f) = 14
              /\ last'.path \notin {"empty", "mismatch"}
              /\ detector'.feature_count = 14
              /\ IF \E field \in {d.raw_acceleration, d.raw_gyroscope, d.velocity} :
                        field.tag \notin {"absent", "map"}
                 THEN \A i \in 1..14 : f[i] = 0
                 ELSE /\ << f[1], f[2], f[3] >> = Axes(d.raw_acceleration)
                      /\ << f[4], f[5], f[6] >> = Axes(d.raw_gyroscope)
                      /\ << f[7], f[8], f[9] >> = Angles(d)
                      /\ \E v \in {Axes(d.velocity)} :
                            /\ f[10] >= 0
                            /\ f[10] * f[10] <= v[1] * v[1] + v[2] * v[2] + v[3] * v[3]
                            /\ (f[10] + 1) * (f[10] + 1) > v[1] * v[1] + v[2] * v[2] + v[3] * v[3]
                      /\ f[11] = Field(d.gps_speed, 0)
                      /\ f[12] = Field(d.gps_heading, 0)
                      /\ f[13] = Field(d.confidence, 1)
                      /\ f[14] = Field(d.system_health, 1) ]_vars

\* After a full payload, a payload whose velocity is not a mapping was
\* extracted to 14 zeros and accepted by the detector
C22_Witness ==
    /\ session.sample_count = 2
    /\ session.event.kind = "frame"
    /\ session.event.frame.body = BrokenBody
    /\ last.features = [i \in 1..14 |-> 0]
    /\ Len(detector.data_buffer) = 2
    /\ detector.data_buffer[1] = << 0, 0, 1, 0, 0, 0, 1, 2, 3, 5, 5, 2, 1, 1 >>

\* C23: a detector constructed with a buffer_size below 20 never becomes
\* trained.  Its buffer never holds 20 samples, no training round is ever run
\* (neither by predict nor by update_model, which returns at once and changes
\* nothing), and every predict call that passes the validation returns the
\* statistical score of its vector.
C23_SmallBufferNeverTrains ==
    [][ IsCall =>
          /\ detector'.buffer_size < MinTrainSamples
          /\ Len(detector'.data_buffer) <= detector'.buffer_size
          /\ ~detector'.is_trained
          /\ detector'.rounds = 0
          /\ last'.fit = "none"
          /\ last'.op = "predict" =>
                /\ last'.path \in {"empty", "mismatch", "cold"}
                /\ last'.path = "cold" =>
                      last'.ret = (ScoreOne \div UnitOne)
                          * StatisticalAnomalyScore(detector'.data_buffer, last'.features)
                /\ last'.path # "cold" => last'.ret = 0
          /\ last'.op = "update_model" => detector' = detector ]_vars

\* update_model was refused on a detector of capacity 19 whose buffer is full
\* and has evicted samples
C23_Witness ==
    /\ detector.buffer_size = MinTrainSamples - 1
    /\ Len(detector.data_buffer) = detector.buffer_size
    /\ Len(accepted) > detector.buffer_size
    /\ last.op = "update_model"
    /\ resets = 0

\* C24: every predict call that passes the validation appends exactly one
\* entry, the score it returns, to anomaly_history: the history holds
\* min(100, accepted predictions since the last reset) scores on every path,
\* the path where the trained scoring raises and the statistical score is
\* returned included.
C24_HistoryCountsAccepted ==
    /\ Len(detector.anomaly_history) = Min(HistoryLen, Len(accepted))
    /\ ( /\ last.op = "predict"
         /\ last.path \notin {"empty", "mismatch"} )
       => /\ Len(detector.anomaly_history) > 0
          /\ detector.anomaly_history[Len(detector.anomaly_history)] = last.ret
====
